---- MODULE Spec2Model ----
(***************************************************************************)
(* Model of package framed (sectioned framing): a Framed session over an   *)
(* ordered byte stream, its Frames and their Header / Body FrameSections   *)
(* (Spec, and SpecPeer for a writing side that uses WriteHeader); and of   *)
(* the single-section variant: a Writer shared by goroutines and a Reader  *)
(* over one stream (SpecRW).                                               *)
(*                                                                         *)
(* The stream is a sequence of runs of bytes.  A run [n, b] stands for n   *)
(* bytes of value b, so that sections of up to 65536 bytes are carried     *)
(* without enumerating them, while every byte of the stream still has a    *)
(* value that readLengths decodes when the reader is positioned inside a   *)
(* payload.  Bytes delivered to the caller are recorded as ranges          *)
(* [from, to) of stream offsets.                                           *)
(***************************************************************************)
EXTENDS Integers, Sequences, FiniteSets, TLC

\* ---- bounds of the model ----
MaxFrames == 2      \* WriteFrame calls per behaviour
MaxGot == 2         \* frames the reading side obtains per behaviour
MaxCopies == 2      \* CopyTo calls per frame that take bytes from the stream
MaxPartial == 1     \* offset in a section up to which a Read may leave it unfinished
MaxCalls == 2       \* Write and WritePieces calls per behaviour
MaxReads == 2       \* Reader.Read and Reader.ReadFrame calls per behaviour

\* ---- sizes that come from the code and its libraries ----
MaxSectionLength == 65535  \* largest header or body length the format carries
DiscardBufSize == 8192     \* buffer ioutil.Discard reads into (io.Copy in drain)
CopyBufSize == 32768       \* buffer io.Copy reads into (io.CopyN in CopyTo)

\* (header length, body length, value of the payload bytes) of the frames
\* the writer may write
FrameInputs ==
    { <<5, 2, 255>>, <<0, 3, 255>>, <<3, 0, 255>>, <<32767, 3, 0>>,
      <<40000, 3, 0>>, <<65536, 0, 0>> }

\* lengths of the buffers the caller passes to FrameSection.Read
BufSizes == { 1, 70000 }

\* most bytes the transport hands over in one Read
SegmentSizes == { 4096, 70000 }


Sections == { "Header", "Body" }

Min(a, b) == IF a < b THEN a ELSE b

\* ---- Length-prefix codec (encoding/binary, little endian) ----
ToUint16(x) == x % 65536

ToInt16(x) == IF x % 65536 >= 32768 THEN (x % 65536) - 65536 ELSE x % 65536

PutUint16(v) == << v % 256, v \div 256 >>

Uint16(b) == b[1] + 256 * b[2]

VARIABLES wire, status, written, wres,
          pos, hasReadInitial, cur, got, last,
          mutex, wr, sent, rpos, reads, rres

\* the state of a Writer and a Reader of the single-section variant
rwvars == << mutex, wr, sent, rpos, reads, rres >>

\* the state of a Framed session, its current Frame and its caller
fvars == << written, wres, pos, hasReadInitial, cur, got, last >>

vars == << wire, status, written, wres,
           pos, hasReadInitial, cur, got, last,
           mutex, wr, sent, rpos, reads, rres >>

\* ---- the byte stream ----
RECURSIVE WireLen(_)
WireLen(w) == IF w = << >> THEN 0 ELSE Head(w).n + WireLen(Tail(w))

RECURSIVE ByteAt(_, _)
ByteAt(w, p) ==
    IF p < Head(w).n THEN Head(w).b
    ELSE ByteAt(Tail(w), p - Head(w).n)

Run(n, b) == IF n = 0 THEN << >> ELSE << [n |-> n, b |-> b] >>

Runs(bs) == [i \in 1..Len(bs) |-> [n |-> 1, b |-> bs[i]]]

\* one Read of the transport at offset p into a buffer of want bytes; the
\* transport hands over at most segment bytes at a time
StreamRead(p, want, segment) ==
    IF status = "failed" THEN [n |-> 0, err |-> "ErrTransport"]
    ELSE IF WireLen(wire) - p > 0
         THEN [n |-> Min(Min(want, WireLen(wire) - p), segment), err |-> "nil"]
    ELSE [n |-> 0, err |-> "EOF"]

\* io.ReadFull of binary.Read: min bytes or an error
RECURSIVE ReadFull(_, _, _, _)
ReadFull(p, have, min, seg) ==
    IF have >= min THEN [pos |-> p, n |-> have, err |-> "nil"]
    ELSE LET r == StreamRead(p, min - have, seg) IN
         IF r.err = "nil" THEN ReadFull(p + r.n, have + r.n, min, seg)
         ELSE [pos |-> p, n |-> have,
               err |-> IF r.err = "EOF" /\ have > 0
                       THEN "ErrUnexpectedEOF" ELSE r.err]

\* binary.Read(framed, endianness, &int16)
binaryReadInt16(p, seg) ==
    LET r == ReadFull(p, 0, 2, seg) IN
    IF r.err # "nil" THEN [pos |-> r.pos, v |-> 0, err |-> r.err]
    ELSE [pos |-> r.pos,
          v |-> ToInt16(Uint16(<< ByteAt(wire, p), ByteAt(wire, p + 1) >>)),
          err |-> "nil"]

\* binary.Write of the two int16 lengths
writeHeaderTo(headerLength, bodyLength) ==
    PutUint16(ToUint16(headerLength)) \o PutUint16(ToUint16(bodyLength))

\* ---- Frame and FrameSection ----
NewFrame ==
    [ valid |-> TRUE, headerLength |-> 0, bodyLength |-> 0,
      bytesRemaining |-> [s \in Sections |-> 0],
      startedReading |-> [s \in Sections |-> FALSE] ]

NoFrame == [NewFrame EXCEPT !.valid = FALSE]

RECURSIVE Read(_, _, _, _, _)
RECURSIVE DiscardReadFrom(_, _, _, _)

\* FrameSection.drain
drain(f, s, p, seg) ==
    IF f.bytesRemaining[s] > 0 THEN DiscardReadFrom(f, s, p, seg)
    ELSE [f |-> f, pos |-> p, err |-> "nil"]

\* Read that runs init before it looks at bytesRemaining
ReadInitFirst(f, s, p, plen, seg) ==
    LET i == IF s = "Body" THEN drain(f, "Header", p, seg)
             ELSE [f |-> f, pos |-> p, err |-> "nil"]
    IN
    IF i.err # "nil"
    THEN [f |-> i.f, pos |-> i.pos, from |-> i.pos, n |-> 0, err |-> i.err]
    ELSE IF i.f.bytesRemaining[s] = 0
    THEN [f |-> i.f, pos |-> i.pos, from |-> i.pos, n |-> 0, err |-> "nil"]
    ELSE
    LET f1 == [i.f EXCEPT !.startedReading[s] = TRUE]
        rem == f1.bytesRemaining[s]
    IN
    IF plen > rem /\ rem < 0
    THEN [f |-> f1, pos |-> i.pos, from |-> i.pos, n |-> 0, err |-> "panic"]
    ELSE
    LET r == StreamRead(i.pos, Min(plen, rem), seg)
        rem2 == IF r.n > 0 THEN rem - r.n ELSE rem
    IN [f |-> [f1 EXCEPT !.bytesRemaining[s] = rem2],
        pos |-> i.pos + r.n, from |-> i.pos, n |-> r.n,
        err |-> IF rem2 = 0 THEN "EOF" ELSE r.err]

\* FrameSection.Read with a buffer of plen bytes
Read(f, s, p, plen, seg) ==
    IF f.bytesRemaining[s] = 0
    THEN [f |-> f, pos |-> p, from |-> p, n |-> 0, err |-> "nil"]
    ELSE
    LET i == IF s = "Body" THEN drain(f, "Header", p, seg)
             ELSE [f |-> f, pos |-> p, err |-> "nil"]
    IN
    IF i.err # "nil"
    THEN [f |-> i.f, pos |-> i.pos, from |-> i.pos, n |-> 0, err |-> i.err]
    ELSE
    LET f1 == [i.f EXCEPT !.startedReading[s] = TRUE]
        rem == f1.bytesRemaining[s]
    IN
    IF plen > rem /\ rem < 0
    THEN [f |-> f1, pos |-> i.pos, from |-> i.pos, n |-> 0, err |-> "panic"]
    ELSE
    LET r == StreamRead(i.pos, Min(plen, rem), seg)
        rem2 == IF r.n > 0 THEN rem - r.n ELSE rem
    IN [f |-> [f1 EXCEPT !.bytesRemaining[s] = rem2],
        pos |-> i.pos + r.n, from |-> i.pos, n |-> r.n,
        err |-> IF rem2 = 0 THEN "EOF" ELSE r.err]

\* io.Copy(ioutil.Discard, section)
DiscardReadFrom(f, s, p, seg) ==
    LET r == Read(f, s, p, DiscardBufSize, seg) IN
    IF r.err = "nil" THEN DiscardReadFrom(r.f, s, r.pos, seg)
    ELSE [f |-> r.f, pos |-> r.pos,
          err |-> IF r.err = "EOF" THEN "nil" ELSE r.err]

\* Frame.readLengths
readLengths(f, p, seg) ==
    LET h == binaryReadInt16(p, seg) IN
    IF h.err # "nil" THEN [f |-> f, pos |-> h.pos, err |-> h.err]
    ELSE
    LET f1 == [f EXCEPT !.headerLength = h.v]
        b == binaryReadInt16(h.pos, seg)
    IN
    IF b.err # "nil" THEN [f |-> f1, pos |-> b.pos, err |-> b.err]
    ELSE [f |-> [f1 EXCEPT !.bodyLength = b.v,
                           !.bytesRemaining =
                               [s \in Sections |->
                                   IF s = "Header" THEN h.v ELSE b.v]],
          pos |-> b.pos, err |-> "nil"]

\* nextFrame that drops the error of readLengths
nextFrameNoError(p, seg) ==
    [readLengths(NewFrame, p, seg) EXCEPT !.err = "nil"]

\* Framed.nextFrame
nextFrame(p, seg) == readLengths(NewFrame, p, seg)

\* io.CopyN's loop over the LimitedReader: left bytes still to copy
RECURSIVE CopyLoop(_, _, _)
CopyLoop(p, left, seg) ==
    IF left <= 0 THEN [pos |-> p, err |-> "nil"]
    ELSE LET r == StreamRead(p, Min(left, CopyBufSize), seg) IN
         IF r.err = "nil" THEN CopyLoop(p + r.n, left - r.n, seg)
         ELSE [pos |-> p, err |-> r.err]

\* ---- history kept for the properties ----
AddRange(rs, from, to) ==
    IF to = from THEN rs
    ELSE IF rs # << >> /\ rs[Len(rs)][2] = from
         THEN [rs EXCEPT ![Len(rs)] = << rs[Len(rs)][1], to >>]
    ELSE Append(rs, << from, to >>)

\* result of the reading side's last call
NoOp == [ op |-> "none", sec |-> "none", err |-> "nil", n |-> 0,
          from |-> 0, out |-> << >> ]

\* what has happened to the current frame: it is the idx-th frame obtained, its
\* length prefix was read at offset at, hd / bd are the stream ranges its
\* Header.Read / Body.Read calls delivered to the caller, skip tells that a
\* drain discarded bytes of it, used that a call was made on it, copies how
\* many CopyTo calls took bytes, and clean that every earlier frame was read
\* in full by the caller, without CopyTo
Entry(idx, at, clean) ==
    [ idx |-> idx, at |-> at, hd |-> << >>, bd |-> << >>, skip |-> FALSE,
      used |-> FALSE, copies |-> 0, clean |-> clean ]

\* ---- Writer and Reader of the single-section variant (framed.go) ----
\* goroutines that call Write and WritePieces on one Writer
Goroutines == { "g1", "g2" }

\* lengths of the frames passed to Write
FrameLengths == { 0, 3, 65535, 65536 }

\* lengths of the pieces passed to WritePieces
PiecesInputs == { << >>, << 2, 3 >>, << 65535, 1 >> }

\* value of every payload byte they write
PayloadByte == 7

\* lengths of the buffers passed to Reader.Read
ReadBufSizes == { 2, 70000 }

FrameHeaderLength == 2

MaxFrameLength == 65535

RECURSIVE Total(_)
Total(pieces) ==
    IF pieces = << >> THEN 0 ELSE Head(pieces) + Total(Tail(pieces))

\* a goroutine's call on the Writer: pc is where it stands, id its entry in
\* sent, pieces the lengths of its arguments, i the pieces written so far;
\* n and err are the results the function declares and returns, ierr the
\* error the body keeps in innererr; ranges are the stream ranges it wrote
Idle ==
    [ pc |-> "idle", id |-> 0, pieces |-> << >>, i |-> 0, written |-> 0,
      innern |-> 0, n |-> 0, err |-> "nil", ierr |-> "nil",
      ranges |-> << >> ]

\* result of the Reader's last call: n and err as returned, ierr the error
\* kept in innererr, [from, from + got) the stream range read into the
\* caller's buffer (Read) or into innerframe (ReadFrame), and frame the
\* stream ranges held by the slice ReadFrame returns (none for a nil slice)
NoRead ==
    [ op |-> "none", at |-> 0, blen |-> 0, n |-> 0, err |-> "nil",
      ierr |-> "nil", from |-> 0, got |-> 0, frame |-> << >> ]

Init ==
    /\ wire = << >>
    /\ status = "open"
    /\ written = << >>
    /\ wres = "none"
    /\ pos = 0
    /\ hasReadInitial = FALSE
    /\ cur = NoFrame
    /\ got = Entry(0, 0, TRUE)
    /\ last = NoOp
    /\ mutex = "none"
    /\ wr = [g \in Goroutines |-> Idle]
    /\ sent = << >>
    /\ rpos = 0
    /\ reads = 0
    /\ rres = NoRead

\* ---- the writing side ----
\* Framed.WriteFrame with a header of hLen and a body of bLen bytes of value
\* fill; the first Write on a lost connection fails
WriteFrame(hLen, bLen, fill) ==
    /\ status # "closed"
    /\ Len(written) < MaxFrames
    /\ IF status = "failed"
       THEN /\ wres' = "ErrTransport"
            /\ UNCHANGED << wire, written >>
       ELSE /\ wire' = wire
                  \o Runs(writeHeaderTo(ToInt16(hLen), ToInt16(bLen)))
                  \o Run(hLen, fill) \o Run(bLen, fill)
            /\ written' = Append(written,
                  [ hLen |-> hLen, bLen |-> bLen, at |-> WireLen(wire) ])
            /\ wres' = "nil"
    /\ UNCHANGED << status, pos, hasReadInitial, cur, got, last >>
    /\ UNCHANGED rwvars

\* the writing side closes the stream: the reader meets io.EOF at its end
Close ==
    /\ status = "open"
    /\ status' = "closed"
    /\ UNCHANGED << wire, written, wres, pos, hasReadInitial,
                    cur, got, last >>
    /\ UNCHANGED rwvars

\* the connection is lost: every later Read and Write fails
Fail ==
    /\ status # "failed"
    /\ status' = "failed"
    /\ UNCHANGED << wire, written, wres, pos, hasReadInitial,
                    cur, got, last >>
    /\ UNCHANGED rwvars

\* ---- the reading side ----
\* The reading side runs once the writing side has closed the stream or the
\* connection is lost (a Read of an open stream with nothing to deliver only
\* waits), and an unrecovered panic ends it.
reading == status # "open" /\ last.err # "panic"

\* the current frame was read in full by its caller
ReadInFull ==
    /\ cur.bytesRemaining["Header"] = 0
    /\ cur.bytesRemaining["Body"] = 0
    /\ ~got.skip
    /\ got.copies = 0

\* ReadInitial without its hasReadInitial check
ReadInitialUnguarded(seg) ==
    /\ reading
    /\ LET r == nextFrame(pos, seg) IN
       /\ cur' = IF r.err = "nil" THEN r.f ELSE cur
       /\ pos' = r.pos
       /\ hasReadInitial' = TRUE
       /\ got' = IF r.err = "nil" THEN Entry(1, pos, TRUE) ELSE got
       /\ last' = [NoOp EXCEPT !.op = "ReadInitial", !.err = r.err,
                               !.from = pos]
    /\ UNCHANGED << wire, status, written, wres >>
    /\ UNCHANGED rwvars

\* Framed.ReadInitial; a frame returned together with an error is not used
ReadInitial(seg) ==
    /\ reading
    /\ IF hasReadInitial
       THEN /\ last' = [NoOp EXCEPT !.op = "ReadInitial",
                                    !.err = "AlreadyReadError", !.from = pos]
            /\ UNCHANGED << pos, hasReadInitial, cur, got >>
       ELSE LET r == nextFrame(pos, seg) IN
            /\ cur' = IF r.err = "nil" THEN r.f ELSE cur
            /\ pos' = r.pos
            /\ hasReadInitial' = TRUE
            /\ got' = IF r.err = "nil" THEN Entry(1, pos, TRUE) ELSE got
            /\ last' = [NoOp EXCEPT !.op = "ReadInitial", !.err = r.err,
                                    !.from = pos]
    /\ UNCHANGED << wire, status, written, wres >>
    /\ UNCHANGED rwvars

\* bytes of section s of the current frame consumed so far
Taken(s) ==
    (IF s = "Header" THEN cur.headerLength ELSE cur.bodyLength)
        - cur.bytesRemaining[s]

\* the caller's Header.Read / Body.Read with a buffer of plen bytes
SectionRead(s, plen, seg) ==
    /\ reading
    /\ cur.valid
    /\ LET r == Read(cur, s, pos, plen, seg) IN
       /\ (r.n > 0 /\ r.f.bytesRemaining[s] > 0) => Taken(s) < MaxPartial
       /\ cur' = r.f
       /\ pos' = r.pos
       /\ got' = [got EXCEPT
              !.hd = IF s = "Header"
                     THEN AddRange(@, r.from, r.from + r.n) ELSE @,
              !.bd = IF s = "Body"
                     THEN AddRange(@, r.from, r.from + r.n) ELSE @,
              !.skip = @ \/ r.from > pos,
              !.used = TRUE]
       /\ last' = [NoOp EXCEPT !.op = "Read", !.sec = s, !.err = r.err,
                               !.n = r.n, !.from = r.from]
    /\ UNCHANGED << wire, status, written, wres, hasReadInitial >>
    /\ UNCHANGED rwvars

\* Frame.NextFrame on the current frame
NextFrame(seg) ==
    /\ reading
    /\ cur.valid
    /\ LET h == drain(cur, "Header", pos, seg)
           b == drain(h.f, "Body", h.pos, seg)
           nf == nextFrame(b.pos, seg)
       IN
       IF h.err # "nil" \/ b.err # "nil"
       THEN LET d == IF h.err # "nil" THEN h ELSE b IN
            /\ cur' = d.f
            /\ pos' = d.pos
            /\ got' = [got EXCEPT !.skip = @ \/ d.pos > pos, !.used = TRUE]
            /\ last' = [NoOp EXCEPT !.op = "NextFrame", !.err = d.err,
                                    !.from = d.pos]
       ELSE /\ nf.err = "nil" => got.idx < MaxGot
            /\ cur' = IF nf.err = "nil" THEN nf.f ELSE b.f
            /\ pos' = nf.pos
            /\ got' = IF nf.err = "nil"
                      THEN Entry(got.idx + 1, b.pos, got.clean /\ ReadInFull)
                      ELSE [got EXCEPT !.skip = @ \/ b.pos > pos,
                                       !.used = TRUE]
            /\ last' = [NoOp EXCEPT !.op = "NextFrame", !.err = nf.err,
                                    !.from = b.pos]
    /\ UNCHANGED << wire, status, written, wres, hasReadInitial >>
    /\ UNCHANGED rwvars

\* CopyTo that looks at Header.startedReading only
CopyToHeaderOnly(seg) ==
    /\ reading
    /\ cur.valid
    /\ IF cur.startedReading["Header"]
       THEN /\ last' = [NoOp EXCEPT !.op = "CopyTo",
                                    !.err = "AlreadyReadError",
                                    !.from = pos]
            /\ got' = [got EXCEPT !.used = TRUE]
            /\ UNCHANGED pos
       ELSE LET c == CopyLoop(pos, ToInt16(cur.headerLength + cur.bodyLength),
                              seg)
            IN
            /\ c.pos > pos => got.copies < MaxCopies
            /\ pos' = c.pos
            /\ got' = [got EXCEPT
                          !.copies = IF c.pos > pos THEN @ + 1 ELSE @,
                          !.used = TRUE]
            /\ last' = [NoOp EXCEPT
                          !.op = "CopyTo", !.err = c.err, !.n = c.pos - pos,
                          !.from = pos,
                          !.out = writeHeaderTo(cur.headerLength,
                                                cur.bodyLength)]
    /\ UNCHANGED << wire, status, written, wres, hasReadInitial, cur >>
    /\ UNCHANGED rwvars

\* Frame.CopyTo on the current frame, to a destination that accepts every
\* byte: last.out is the length prefix written to it and
\* [last.from, last.from + last.n) the stream range copied after it
CopyTo(seg) ==
    /\ reading
    /\ cur.valid
    /\ IF cur.startedReading["Header"] \/ cur.startedReading["Body"]
       THEN /\ last' = [NoOp EXCEPT !.op = "CopyTo",
                                    !.err = "AlreadyReadError",
                                    !.from = pos]
            /\ got' = [got EXCEPT !.used = TRUE]
            /\ UNCHANGED pos
       ELSE LET c == CopyLoop(pos, ToInt16(cur.headerLength + cur.bodyLength),
                              seg)
            IN
            /\ c.pos > pos => got.copies < MaxCopies
            /\ pos' = c.pos
            /\ got' = [got EXCEPT
                          !.copies = IF c.pos > pos THEN @ + 1 ELSE @,
                          !.used = TRUE]
            /\ last' = [NoOp EXCEPT
                          !.op = "CopyTo", !.err = c.err, !.n = c.pos - pos,
                          !.from = pos,
                          !.out = writeHeaderTo(cur.headerLength,
                                                cur.bodyLength)]
    /\ UNCHANGED << wire, status, written, wres, hasReadInitial, cur >>
    /\ UNCHANGED rwvars

Next ==
    \/ \E fr \in FrameInputs : WriteFrame(fr[1], fr[2], fr[3])
    \/ Close
    \/ Fail
    \/ \E seg \in SegmentSizes : ReadInitial(seg)
    \/ \E s \in Sections, plen \in BufSizes, seg \in SegmentSizes :
          SectionRead(s, plen, seg)
    \/ \E seg \in SegmentSizes : NextFrame(seg)
    \/ \E seg \in SegmentSizes : CopyTo(seg)

Spec == Init /\ [][Next]_vars

\* Framed.WriteHeader: the writing side puts a length-prefix pair on the
\* stream and is to write the payload itself; written records the pair
WriteHeader(hLen, bLen) ==
    /\ status # "closed"
    /\ Len(written) < MaxFrames
    /\ IF status = "failed"
       THEN /\ wres' = "ErrTransport"
            /\ UNCHANGED << wire, written >>
       ELSE /\ wire' = wire
                  \o Runs(writeHeaderTo(ToInt16(hLen), ToInt16(bLen)))
            /\ written' = Append(written,
                  [ hLen |-> hLen, bLen |-> bLen, at |-> WireLen(wire) ])
            /\ wres' = "nil"
    /\ UNCHANGED << status, pos, hasReadInitial, cur, got, last >>
    /\ UNCHANGED rwvars

\* a writing side that may also close the stream before the payload of the
\* last length-prefix pair is written
NextPeer ==
    \/ Next
    \/ \E fr \in FrameInputs : WriteHeader(fr[1], fr[2])

SpecPeer == Init /\ [][NextPeer]_vars

\* ---- the Writer (framed.go) ----
\* The body of Write and WritePieces assigns to innern and innererr, which
\* are not the results n and err the functions declare: a bare return hands
\* back n and err, which only the explicit `return 0, fmt.Errorf(...)` sets.

\* the goroutine's call returns: the deferred Unlock runs
Returned(w) == [w EXCEPT !.pc = "done"]

\* Write that does not wait for the mutex
WriteUnlocked(g, flen) ==
    /\ wr[g].pc \in { "idle", "done" }
    /\ Len(sent) < MaxCalls
    /\ sent' = Append(sent, [ kind |-> "Write", pieces |-> << flen >>,
                              at |-> -1 ])
    /\ LET w == [Idle EXCEPT !.id = Len(sent) + 1, !.pieces = << flen >>,
                             !.innern = flen]
       IN IF w.innern > MaxFrameLength
          THEN /\ wr' = [wr EXCEPT ![g] =
                            Returned([w EXCEPT !.n = 0,
                                               !.err = "tooLongError"])]
               /\ UNCHANGED mutex
          ELSE /\ wr' = [wr EXCEPT ![g] = [w EXCEPT !.pc = "prefix"]]
               /\ mutex' = g
    /\ UNCHANGED << wire, status, rpos, reads, rres >>
    /\ UNCHANGED fvars

\* Writer.Write(frame) with len(frame) = flen, up to its first write: the
\* goroutine takes the mutex and checks the length
Write(g, flen) ==
    /\ wr[g].pc \in { "idle", "done" }
    /\ Len(sent) < MaxCalls
    /\ mutex = "none"
    /\ sent' = Append(sent, [ kind |-> "Write", pieces |-> << flen >>,
                              at |-> -1 ])
    /\ LET w == [Idle EXCEPT !.id = Len(sent) + 1, !.pieces = << flen >>,
                             !.innern = flen]
       IN IF w.innern > MaxFrameLength
          THEN /\ wr' = [wr EXCEPT ![g] =
                            Returned([w EXCEPT !.n = 0,
                                               !.err = "tooLongError"])]
               /\ mutex' = "none"
          ELSE /\ wr' = [wr EXCEPT ![g] = [w EXCEPT !.pc = "prefix"]]
               /\ mutex' = g
    /\ UNCHANGED << wire, status, rpos, reads, rres >>
    /\ UNCHANGED fvars

\* Writer.WritePieces(pieces...), up to its first write: the sum of the
\* lengths goes to innern, and the check and the prefix use n
WritePieces(g, pieces) ==
    /\ wr[g].pc \in { "idle", "done" }
    /\ Len(sent) < MaxCalls
    /\ mutex = "none"
    /\ sent' = Append(sent, [ kind |-> "WritePieces", pieces |-> pieces,
                              at |-> -1 ])
    /\ LET w == [Idle EXCEPT !.id = Len(sent) + 1, !.pieces = pieces,
                             !.innern = Total(pieces)]
       IN IF w.n > MaxFrameLength
          THEN /\ wr' = [wr EXCEPT ![g] =
                            Returned([w EXCEPT !.n = 0,
                                               !.err = "tooLongError"])]
               /\ mutex' = "none"
          ELSE /\ wr' = [wr EXCEPT ![g] = [w EXCEPT !.pc = "prefix"]]
               /\ mutex' = g
    /\ UNCHANGED << wire, status, rpos, reads, rres >>
    /\ UNCHANGED fvars

\* binary.Write of the length header: uint16(innern) in Write, uint16(n) in
\* WritePieces
WritePrefix(g) ==
    /\ wr[g].pc = "prefix"
    /\ LET w == wr[g]
           v == IF sent[w.id].kind = "Write" THEN ToUint16(w.innern)
                ELSE ToUint16(w.n)
       IN IF status # "open"
          THEN /\ wr' = [wr EXCEPT ![g] =
                            Returned([w EXCEPT !.ierr = "ErrTransport"])]
               /\ mutex' = "none"
               /\ UNCHANGED << wire, sent >>
          ELSE /\ wire' = wire \o Runs(PutUint16(v))
               /\ sent' = [sent EXCEPT ![w.id].at = WireLen(wire)]
               /\ wr' = [wr EXCEPT ![g] =
                            [w EXCEPT !.pc = "data",
                                      !.ranges = AddRange(@, WireLen(wire),
                                          WireLen(wire) + FrameHeaderLength)]]
               /\ UNCHANGED mutex
    /\ UNCHANGED << status, rpos, reads, rres >>
    /\ UNCHANGED fvars

\* framed.Stream.Write of the frame, or of the next piece
WritePiece(g) ==
    /\ wr[g].pc = "data"
    /\ wr[g].i < Len(wr[g].pieces)
    /\ LET w == wr[g]
           nw == w.pieces[w.i + 1]
       IN IF status # "open"
          THEN /\ wr' = [wr EXCEPT ![g] =
                            Returned([w EXCEPT !.ierr = "ErrTransport"])]
               /\ mutex' = "none"
               /\ UNCHANGED wire
          ELSE /\ wire' = wire \o Run(nw, PayloadByte)
               /\ wr' = [wr EXCEPT ![g] =
                            [w EXCEPT !.i = @ + 1, !.written = @ + nw,
                                      !.ranges = AddRange(@, WireLen(wire),
                                                     WireLen(wire) + nw)]]
               /\ UNCHANGED mutex
    /\ UNCHANGED << status, sent, rpos, reads, rres >>
    /\ UNCHANGED fvars

\* the check of written after the last write, and the return
Return(g) ==
    /\ wr[g].pc = "data"
    /\ wr[g].i = Len(wr[g].pieces)
    /\ LET w == wr[g]
           expected == IF sent[w.id].kind = "Write" THEN w.innern ELSE w.n
       IN wr' = [wr EXCEPT ![g] =
                    Returned([w EXCEPT !.ierr = IF w.written # expected
                                                THEN "shortWrite"
                                                ELSE "nil"])]
    /\ mutex' = "none"
    /\ UNCHANGED << wire, status, sent, rpos, reads, rres >>
    /\ UNCHANGED fvars

\* ---- the Reader (framed.go) ----
\* One goroutine reads, once the writing side has closed the stream or the
\* connection is lost, so that its mutex is always free.

\* binary.Read(framed.Stream, endianness, &nb) with nb a uint16
binaryReadUint16(p, seg) ==
    LET r == ReadFull(p, 0, FrameHeaderLength, seg) IN
    IF r.err # "nil" THEN [pos |-> r.pos, v |-> 0, err |-> r.err]
    ELSE [pos |-> r.pos,
          v |-> Uint16(<< ByteAt(wire, p), ByteAt(wire, p + 1) >>),
          err |-> "nil"]

\* Reader.Read(buffer) with len(buffer) = blen
ReaderRead(blen, seg) ==
    /\ status # "open"
    /\ reads < MaxReads
    /\ reads' = reads + 1
    /\ LET h == binaryReadUint16(rpos, seg)
           res == [NoRead EXCEPT !.op = "Read", !.at = rpos, !.blen = blen,
                                 !.from = h.pos]
       IN IF h.err # "nil"
          THEN /\ rres' = [res EXCEPT !.ierr = h.err]
               /\ rpos' = h.pos
          ELSE IF h.v > blen
          THEN /\ rres' = [res EXCEPT !.n = 0, !.err = "bufferTooSmall"]
               /\ rpos' = h.pos
          ELSE LET r == ReadFull(h.pos, 0, h.v, seg) IN
               /\ rres' = [res EXCEPT !.ierr = r.err, !.got = r.n]
               /\ rpos' = r.pos
    /\ UNCHANGED << wire, status, mutex, wr, sent >>
    /\ UNCHANGED fvars

\* Reader.ReadFrame(): the frame is read into innerframe
ReadFrame(seg) ==
    /\ status # "open"
    /\ reads < MaxReads
    /\ reads' = reads + 1
    /\ LET h == binaryReadUint16(rpos, seg)
           res == [NoRead EXCEPT !.op = "ReadFrame", !.at = rpos,
                                 !.from = h.pos]
       IN IF h.err # "nil"
          THEN /\ rres' = [res EXCEPT !.ierr = h.err]
               /\ rpos' = h.pos
          ELSE LET r == ReadFull(h.pos, 0, h.v, seg) IN
               /\ rres' = [res EXCEPT !.ierr = r.err, !.got = r.n]
               /\ rpos' = r.pos
    /\ UNCHANGED << wire, status, mutex, wr, sent >>
    /\ UNCHANGED fvars

NextRW ==
    \/ \E g \in Goroutines, flen \in FrameLengths : Write(g, flen)
    \/ \E g \in Goroutines, pieces \in PiecesInputs : WritePieces(g, pieces)
    \/ \E g \in Goroutines : WritePrefix(g)
    \/ \E g \in Goroutines : WritePiece(g)
    \/ \E g \in Goroutines : Return(g)
    \/ Close
    \/ Fail
    \/ \E blen \in ReadBufSizes, seg \in SegmentSizes : ReaderRead(blen, seg)
    \/ \E seg \in SegmentSizes : ReadFrame(seg)

SpecRW == Init /\ [][NextRW]_vars

\* ---- what the writer put on the stream, for the properties ----
InRange(w) == w.hLen <= MaxSectionLength /\ w.bLen <= MaxSectionLength

AllInRange == \A i \in 1..Len(written) : InRange(written[i])

HeaderRange(w) ==
    IF w.hLen = 0 THEN << >> ELSE << << w.at + 4, w.at + 4 + w.hLen >> >>

BodyRange(w) ==
    IF w.bLen = 0 THEN << >>
    ELSE << << w.at + 4 + w.hLen, w.at + 4 + w.hLen + w.bLen >> >>

\* the current frame is the idx-th frame written, found where it was written
Aligned ==
    /\ cur.valid
    /\ got.idx \in 1..Len(written)
    /\ got.at = written[got.idx].at

\* bytes of the current frame went through Header.Read or Body.Read
Delivered == got.hd # << >> \/ got.bd # << >> \/ got.skip

\* C1: a frame written with header and body lengths in 0..65535 and obtained
\* by ReadInitial can be read without a panic, and the section the caller has
\* read to its end delivered exactly the bytes written for it.
C1_RoundTrip ==
    (cur.valid /\ got.idx = 1 /\ got.copies = 0 /\ InRange(written[1])) =>
        /\ last.err # "panic"
        /\ (cur.bytesRemaining["Header"] = 0 /\ ~got.skip)
               => got.hd = HeaderRange(written[1])
        /\ (cur.bytesRemaining["Body"] = 0 /\ ~got.skip)
               => got.bd = BodyRange(written[1])

\* C2: when every frame obtained so far was read in full, the k-th frame
\* obtained is the k-th frame written: it is found where that frame was
\* written, reading it never panics, and a section read to its end delivered
\* exactly the bytes written for it.
C2_SequenceRoundTrip ==
    (cur.valid /\ got.clean /\ got.copies = 0 /\ AllInRange) =>
        /\ Aligned
        /\ last.err # "panic"
        /\ (cur.bytesRemaining["Header"] = 0 /\ ~got.skip)
               => got.hd = HeaderRange(written[got.idx])
        /\ (cur.bytesRemaining["Body"] = 0 /\ ~got.skip)
               => got.bd = BodyRange(written[got.idx])

\* C3: whatever the caller has read of the current frame, NextFrame on it
\* leaves the stream at the length prefix of the next frame written and
\* returns a frame whose sections have that frame's lengths.
C3_NextFrameSkipsRemainder ==
    [][\A seg \in SegmentSizes :
         ( /\ NextFrame(seg)
           /\ status = "closed" /\ Aligned /\ got.copies = 0 /\ AllInRange
           /\ got.idx < Len(written) )
         => ( /\ last'.err = "nil"
              /\ got'.idx = got.idx + 1
              /\ got'.at = written[got.idx + 1].at
              /\ cur'.bytesRemaining["Header"] = written[got.idx + 1].hLen
              /\ cur'.bytesRemaining["Body"] = written[got.idx + 1].bLen )
      ]_vars

\* C4: every byte Body.Read delivers lies in the body region of the current
\* frame on the stream, after all of its header bytes.
C4_BodyAfterHeader ==
    (Aligned /\ got.copies = 0 /\ AllInRange) =>
        \A i \in 1..Len(got.bd) :
            /\ got.bd[i][1] >= written[got.idx].at + 4 + written[got.idx].hLen
            /\ got.bd[i][2] <= written[got.idx].at + 4 + written[got.idx].hLen
                                   + written[got.idx].bLen

\* C5: a Read of a section with no bytes remaining returns 0 bytes together
\* with io.EOF.
C5_ExhaustedReadReportsEOF ==
    (last.op = "Read" /\ last.n = 0 /\ cur.bytesRemaining[last.sec] = 0)
        => last.err = "EOF"

\* C6: a ReadInitial after the first returns AlreadyReadError, reads nothing
\* from the stream and leaves the frame obtained before unchanged.
C6_ReadInitialOnce ==
    [][\A seg \in SegmentSizes :
         (ReadInitial(seg) /\ hasReadInitial)
         => ( /\ last'.op = "ReadInitial"
              /\ last'.err = "AlreadyReadError"
              /\ pos' = pos
              /\ cur' = cur )
      ]_vars

\* C6 witness: a second ReadInitial was refused while a frame that has been
\* read from is current.
C6_Witness ==
    /\ last.op = "ReadInitial"
    /\ last.err = "AlreadyReadError"
    /\ cur.valid
    /\ got.hd # << >>

\* C7: CopyTo on a frame of which a byte went through Header.Read or
\* Body.Read (by the caller or by a drain) returns AlreadyReadError, writes
\* nothing to the destination and takes nothing from the stream.
C7_CopyToAfterRead ==
    [][\A seg \in SegmentSizes :
         (CopyTo(seg) /\ Delivered)
         => ( /\ last'.err = "AlreadyReadError"
              /\ last'.out = << >>
              /\ last'.n = 0
              /\ pos' = pos )
      ]_vars

\* C7 witness: CopyTo was refused on a frame whose header was only drained
\* and whose body the caller has read from.
C7_Witness ==
    /\ last.op = "CopyTo"
    /\ last.err = "AlreadyReadError"
    /\ got.skip
    /\ got.bd # << >>

\* C8: CopyTo on an untouched frame with lengths in 0..65535 succeeds, writes
\* the frame's two length prefixes and copies exactly its header and body
\* bytes from the stream.
C8_CopyToReproducesFrame ==
    [][\A seg \in SegmentSizes :
         ( /\ CopyTo(seg)
           /\ status = "closed" /\ Aligned /\ ~got.used
           /\ InRange(written[got.idx]) )
         => ( /\ last'.err = "nil"
              /\ last'.out = PutUint16(written[got.idx].hLen)
                                \o PutUint16(written[got.idx].bLen)
              /\ last'.from = written[got.idx].at + 4
              /\ last'.n = written[got.idx].hLen + written[got.idx].bLen )
      ]_vars

\* C9: WriteFrame with a header or a body longer than 65535 bytes returns an
\* error and writes nothing to the stream.
C9_OversizeRejected ==
    [][\A fr \in FrameInputs :
         ( /\ WriteFrame(fr[1], fr[2], fr[3])
           /\ (fr[1] > MaxSectionLength \/ fr[2] > MaxSectionLength) )
         => (wres' # "nil" /\ wire' = wire)
      ]_vars

\* C10: NextFrame on the last frame written, on a stream that has ended,
\* returns io.EOF.
C10_EndOfStream ==
    [][\A seg \in SegmentSizes :
         ( /\ NextFrame(seg)
           /\ status = "closed" /\ Aligned /\ got.copies = 0 /\ AllInRange
           /\ got.idx = Len(written) )
         => last'.err = "EOF"
      ]_vars

\* ---- properties of the Writer and the Reader ----
\* the call of goroutine g has returned and met no transport error
Completed(g) == wr[g].pc = "done" /\ wr[g].ierr # "ErrTransport"

\* the length prefix found on the stream at offset at
PrefixAt(at) == Uint16(<< ByteAt(wire, at), ByteAt(wire, at + 1) >>)

\* C11: a WritePieces call with pieces of total length S <= 65535 that met no
\* transport error has written one length prefix equal to S followed, without
\* a gap, by S payload bytes, and returned n = S with no error.
C11_WritePiecesFrame ==
    \A g \in Goroutines :
        ( /\ Completed(g)
          /\ sent[wr[g].id].kind = "WritePieces"
          /\ Total(wr[g].pieces) <= MaxFrameLength )
        => ( /\ wr[g].err = "nil"
             /\ wr[g].n = Total(wr[g].pieces)
             /\ sent[wr[g].id].at >= 0
             /\ PrefixAt(sent[wr[g].id].at) = Total(wr[g].pieces)
             /\ wr[g].ranges =
                    << << sent[wr[g].id].at,
                          sent[wr[g].id].at + FrameHeaderLength
                              + Total(wr[g].pieces) >> >> )

\* C12: a Write of a frame longer than 65535 bytes, and a WritePieces of
\* pieces whose lengths sum to more than 65535, return an error and write
\* neither a length prefix nor payload to the stream.
C12_TooLongRejected ==
    \A g \in Goroutines :
        (Completed(g) /\ Total(wr[g].pieces) > MaxFrameLength)
        => (wr[g].err # "nil" /\ wr[g].ranges = << >>)

\* a frame of at most 65535 bytes written in full by Write at the offset the
\* Reader's last call started from, on a stream that was closed after it
ReadOf(k) ==
    /\ rres.op \in { "Read", "ReadFrame" }
    /\ status = "closed"
    /\ sent[k].kind = "Write"
    /\ sent[k].at = rres.at
    /\ sent[k].pieces[1] <= MaxFrameLength
    /\ WireLen(wire) >= sent[k].at + FrameHeaderLength + sent[k].pieces[1]

\* C13: a Write of a frame of at most 65535 bytes that met no transport error
\* returns n = len(frame) with no error; a Read with a buffer of at least
\* that length positioned at the frame returns n = len(frame) with the
\* buffer holding the frame's bytes, and a ReadFrame returns the frame.
C13_WholeFrames ==
    /\ \A g \in Goroutines :
           ( /\ Completed(g)
             /\ sent[wr[g].id].kind = "Write"
             /\ wr[g].pieces[1] <= MaxFrameLength )
           => (wr[g].err = "nil" /\ wr[g].n = wr[g].pieces[1])
    /\ \A k \in 1..Len(sent) :
           (ReadOf(k) /\ (rres.op = "Read" => rres.blen >= sent[k].pieces[1]))
           => ( /\ rres.err = "nil"
                /\ rres.from = sent[k].at + FrameHeaderLength
                /\ rres.got = sent[k].pieces[1]
                /\ rres.op = "Read" => rres.n = sent[k].pieces[1]
                /\ rres.op = "ReadFrame" =>
                       rres.frame = AddRange(<< >>, rres.from,
                                             rres.from + sent[k].pieces[1]) )

\* C14: the bytes each Write or WritePieces call has put on the stream, its
\* length prefix and its payload, form one range of the stream: no byte of
\* another call lies between them.
C14_FramesContiguous ==
    \A g \in Goroutines : Len(wr[g].ranges) <= 1

\* C14 witness: two goroutines have each completed a call that wrote a
\* length prefix and payload, one with Write and one with WritePieces.
C14_Witness ==
    \E g, h \in Goroutines :
        /\ g # h
        /\ Completed(g) /\ Completed(h)
        /\ sent[wr[g].id].kind = "Write"
        /\ sent[wr[h].id].kind = "WritePieces"
        /\ wr[g].written > 0 /\ wr[h].written > 0
        /\ wr[h].i > 1

\* C19: when a Read positioned at a frame written in full by Write fails
\* because the buffer is smaller than the frame, the stream is left at the
\* start of that frame or at the start of what follows it.
C19_RejectedReadKeepsBoundary ==
    \A k \in 1..Len(sent) :
        ( /\ rres.op = "Read"
          /\ rres.err = "bufferTooSmall"
          /\ sent[k].kind = "Write"
          /\ sent[k].at = rres.at
          /\ WireLen(wire) >= sent[k].at + FrameHeaderLength
                                  + sent[k].pieces[1] )
        => rpos \in { sent[k].at,
                      sent[k].at + FrameHeaderLength + sent[k].pieces[1] }

\* ---- properties of frame sections ----
\* declared length of section s of the frame w the writing side wrote
Declared(w, s) == IF s = "Header" THEN w.hLen ELSE w.bLen

\* C15: for a frame written with lengths in 0..65535 and obtained by
\* ReadInitial or NextFrame, each section's bytesRemaining is the declared
\* length L until the frame is used, always lies in 0..L, and a
\* FrameSection.Read lowers the bytesRemaining of the frame's sections by
\* exactly the bytes it takes from the stream.
C15_BytesRemainingInBounds ==
    [][ (Aligned /\ InRange(written[got.idx]))' =>
          /\ \A s \in Sections :
                /\ cur'.bytesRemaining[s] >= 0
                /\ cur'.bytesRemaining[s] <= Declared(written[got.idx], s)'
                /\ ~got'.used => cur'.bytesRemaining[s]
                                    = Declared(written[got.idx], s)'
          /\ (cur.valid /\ got'.idx = got.idx /\ last'.op = "Read") =>
                /\ \A s \in Sections :
                      cur'.bytesRemaining[s] <= cur.bytesRemaining[s]
                /\ (cur.bytesRemaining["Header"] + cur.bytesRemaining["Body"])
                     - (cur'.bytesRemaining["Header"]
                          + cur'.bytesRemaining["Body"]) = pos' - pos
      ]_vars

\* C16: a NextFrame on a lost connection, whose first read of the stream
\* (draining the header, draining the body or reading the next length
\* prefixes) fails, returns the transport error and obtains no frame.
C16_NextFrameReturnsTransportError ==
    [][\A seg \in SegmentSizes :
         (status = "failed" /\ NextFrame(seg))
         => ( /\ last'.op = "NextFrame"
              /\ last'.err = "ErrTransport"
              /\ got'.idx = got.idx )
      ]_vars

\* C16 witness: NextFrame returned the transport error it met while draining
\* a header of which the caller had read a part.
C16_Witness ==
    /\ last.op = "NextFrame"
    /\ last.err = "ErrTransport"
    /\ cur.bytesRemaining["Header"] > 0
    /\ got.hd # << >>

\* C17: a Read of a section with bytesRemaining = 0 takes nothing from the
\* stream and leaves the frame, the other section included, as it was (a
\* Body of length 0 does not drain the header); and a NextFrame on a frame
\* with both sections at 0 drains nothing: it reads the next length prefixes
\* from where the stream stands.
C17_ExhaustedSectionIsInert ==
    [][ /\ \A s \in Sections, plen \in BufSizes, seg \in SegmentSizes :
              ( /\ cur.bytesRemaining[s] = 0
                /\ last'.op = "Read" /\ last'.sec = s
                /\ SectionRead(s, plen, seg) )
              => (pos' = pos /\ cur' = cur /\ last'.n = 0)
        /\ \A seg \in SegmentSizes :
              ( /\ cur.bytesRemaining["Header"] = 0
                /\ cur.bytesRemaining["Body"] = 0
                /\ last'.op = "NextFrame"
                /\ NextFrame(seg) )
              => ( /\ last'.from = pos
                   /\ got'.idx = got.idx => (cur' = cur /\ got'.skip = got.skip) )
      ]_vars

\* C17 witness: the Body of a frame with an empty body was read while its
\* header was still unread, and the header is still unread.
C17_Witness ==
    /\ last.op = "Read"
    /\ last.sec = "Body"
    /\ cur.bodyLength = 0
    /\ cur.headerLength > 0
    /\ cur.bytesRemaining["Header"] = cur.headerLength
    /\ ~cur.startedReading["Header"]

\* the current frame was untouched, has payload, and the last call was a
\* CopyTo that copied it in full
JustCopied ==
    /\ Aligned
    /\ InRange(written[got.idx])
    /\ last.op = "CopyTo"
    /\ last.err = "nil"
    /\ got.copies = 1
    /\ last.n = written[got.idx].hLen + written[got.idx].bLen
    /\ last.n > 0
    /\ pos = written[got.idx].at + 4 + last.n

\* C18: after a CopyTo has copied an untouched frame, a NextFrame on it reads
\* the next length prefixes from the position right after the frame's body,
\* and a second CopyTo on it takes nothing more from the stream.
C18_CopiedFrameIsConsumed ==
    [][\A seg \in SegmentSizes :
         /\ (JustCopied /\ NextFrame(seg)) => last'.from = pos
         /\ (JustCopied /\ CopyTo(seg)) => pos' = pos
      ]_vars

\* C20: when NextFrame found both drains to return without an error (it went
\* on to read the length prefixes), the sections of the frame that had
\* bytesRemaining >= 0 are exhausted.
C20_DrainExhausts ==
    [][\A seg \in SegmentSizes :
         ( /\ NextFrame(seg)
           /\ last'.err \in { "EOF", "ErrUnexpectedEOF" } )
         => \A s \in Sections :
                cur.bytesRemaining[s] >= 0 => cur'.bytesRemaining[s] = 0
      ]_vars
====
